---- MODULE Spec2Model ----
(***************************************************************************)
(* A model of github.com/elliotchance/tf: the function wrapper (tf.go),    *)
(* its naming registry funcMap and the assertion methods Returns, Errors,  *)
(* True and False, which all run through F.runFunc; the environment helper *)
(* (env.go) and the HTTP harness (http.go) follow, each with a             *)
(* specification of its own.                                               *)
(*                                                                         *)
(* Go values held in an interface{} are modelled as records                *)
(*   [t |-> dynamic type, n |-> integer payload, s |-> string payload].    *)
(* A slice []interface{} is a record [isNil |-> BOOLEAN, e |-> sequence],  *)
(* because reflect.DeepEqual tells a nil slice from an empty one.          *)
(***************************************************************************)
EXTENDS Integers, Sequences, FiniteSets, TLC

VARIABLES
    funcMap,   \* tf.go:63-65  the process-wide registry, display name -> counter
    pc,        \* position of the one test goroutine inside F.runFunc
    cur,       \* the F under assertion and the assertion's inputs
    subtest,   \* the sub-test opened by t.Run: [name, ctr], or NoSubtest
    argsIn,    \* runFunc's argsIn after the casting loop
    returns,   \* runFunc's returns slice
    expected,  \* runFunc's expected slice (coerced in place)
    diags,     \* failures recorded on the sub-test's *testing.T
    outcome,   \* "none" | "pass" | "fail" of the sub-test, "panic" of the process
    invoked,   \* how often reflect.Value.Call ran the callee in this assertion
    steps,     \* the steps of this assertion call, in the order they happened
    got,       \* per wrapped handle: the counters its assertion calls received
    prev,      \* summary of the assertion call before this one (pair checks only)
    environ,   \* env.go: the process environment, name -> [exists, value]
    resetEnvs, \* env.go:20,50  the restore closures SetEnv and SetEnvs returned
    envLog,    \* the set and restore calls so far, with the environment each found
    tests,     \* http.go:183  the HTTPTester given to the closure of ServeHTTP
    test,      \* http.go:134  the *HTTPTest that testSingle is running
    hpc,       \* position inside ServeHTTP and testSingle
    stepIdx,   \* http.go:190  index of the step in tests.Tests()
    recorder,  \* http.go:135  what the handler wrote to the ResponseRecorder
    events,    \* the hooks, handler and assertions of the current step, in order
    results,   \* per step: "none" | "pass" | "fail" | "panic"
    handled,   \* the steps whose request reached handlerFunc, in order
    gor        \* per test goroutine: its position in runFunc and its locals

\* the state of the function wrapper (tf.go)
tfVars == <<funcMap, pc, cur, subtest, argsIn, returns, expected, diags, outcome,
            invoked, steps, got, prev>>
\* the state of the environment helper (env.go)
envVars == <<environ, resetEnvs, envLog>>
\* the state of the HTTP harness (http.go)
httpVars == <<tests, test, hpc, stepIdx, recorder, events, results, handled>>
\* assertion calls running on goroutines of their own
goVars == <<gor>>
\* everything but the wrapper's own state
outside == <<envVars, httpVars, goVars>>

vars == <<tfVars, envVars, httpVars, goVars>>

(***************************************************************************)
(* Bounds of the model.                                                    *)
(***************************************************************************)
\* assertion calls made in one process
MaxCalls == 3

(***************************************************************************)
(* Go values.                                                              *)
(***************************************************************************)
Nil == [t |-> "nil", n |-> 0, s |-> ""]
IntV(n) == [t |-> "int", n |-> n, s |-> ""]
Int8V(n) == [t |-> "int8", n |-> n, s |-> ""]
Int64V(n) == [t |-> "int64", n |-> n, s |-> ""]
StrV(str) == [t |-> "string", n |-> 0, s |-> str]
BoolV(b) == [t |-> "bool", n |-> IF b THEN 1 ELSE 0, s |-> ""]
\* *Optional / *MyStruct: n = 0 is the nil pointer, n = 1 points to Optional{Name: "set"}
PtrV(n) == [t |-> "ptr", n |-> n, s |-> ""]
\* errors.New(msg)
ErrorString(msg) == [t |-> "errorString", n |-> 0, s |-> msg]
\* CustomError{errors.New(msg)}
CustomError(msg) == [t |-> "CustomError", n |-> 0, s |-> msg]

NilSlice == [isNil |-> TRUE, e |-> <<>>]
Slice(seq) == [isNil |-> FALSE, e |-> seq]

IntKinds == {"int", "int8", "int64"}
\* dynamic types whose method set holds Error() string
ErrorTypes == {"errorString", "CustomError"}

\* the two's-complement value an integer has after conversion to a w-bit kind
WrapBits(n, w) == ((n + 2 ^ (w - 1)) % (2 ^ w)) - 2 ^ (w - 1)

WrapTo(n, T) ==
    CASE T = "int8" -> WrapBits(n, 8)
      [] OTHER -> n

\* string(rune(n)) for the integers the model's inputs hold
RuneString(n) ==
    CASE n = 65 -> "A"
      [] n < 0 \/ n > 1114111 -> "\\uFFFD"
      [] OTHER -> "\\u{" \o ToString(n) \o "}"

\* reflect.Zero(T).Interface()
ZeroOf(T) ==
    CASE T = "int" -> IntV(0)
      [] T = "int8" -> Int8V(0)
      [] T = "int64" -> Int64V(0)
      [] T = "string" -> StrV("")
      [] T = "bool" -> BoolV(FALSE)
      [] T = "ptr" -> PtrV(0)
      [] T = "error" -> Nil

\* whether reflect.ValueOf(v).Convert(T) is defined; it panics otherwise
Convertible(v, T) ==
    \/ v.t \in IntKinds /\ T \in IntKinds \cup {"string"}
    \/ v.t = "string" /\ T = "string"
    \/ v.t = "bool" /\ T = "bool"
    \/ v.t = "ptr" /\ T = "ptr"
    \/ v.t \in ErrorTypes /\ T = "error"

\* reflect.ValueOf(v).Convert(T).Interface(), for Convertible(v, T)
Convert(v, T) ==
    CASE v.t \in IntKinds /\ T \in IntKinds -> [t |-> T, n |-> WrapTo(v.n, T), s |-> ""]
      [] v.t \in IntKinds /\ T = "string" -> StrV(RuneString(v.n))
      [] OTHER -> v

(***************************************************************************)
(* The functions under test (the callees of the repository's own tests,    *)
(* plus a callee that returns a nil error, one that returns nothing and    *)
(* one that calls panic(nil)).                                             *)
(***************************************************************************)
Callees == {"Remainder", "NewNil", "Booler", "Run", "NewError", "CustomErr",
            "NoError", "Noop", "PanicNil"}

\* runtime.FuncForPC(...).Name() split at ".", as getFunctionName splits it
NameParts(fn) ==
    CASE fn = "Remainder" -> <<"github", "com/elliotchance/tf_test", "Remainder">>
      [] fn = "NewNil" -> <<"github", "com/elliotchance/tf_test", "NewNil">>
      [] fn = "Booler" -> <<"github", "com/elliotchance/tf_test", "Booler">>
      [] fn = "Run" -> <<"github", "com/elliotchance/tf_test", "TestCasting", "func2", "1">>
      [] fn = "NewError" -> <<"github", "com/elliotchance/tf_test", "TestError", "func1", "1">>
      [] fn = "CustomErr" -> <<"github", "com/elliotchance/tf_test", "TestError", "func3", "1">>
      [] fn = "NoError" -> <<"github", "com/elliotchance/tf_test", "NoError">>
      [] fn = "Noop" -> <<"github", "com/elliotchance/tf_test", "Noop">>
      [] fn = "PanicNil" -> <<"github", "com/elliotchance/tf_test", "PanicNil">>

getFunctionName(fn) == NameParts(fn)[Len(NameParts(fn))]

getFunctionArgs(fn) ==
    CASE fn = "Remainder" -> <<"int", "int">>
      [] fn = "NewNil" -> <<"ptr">>
      [] fn = "Booler" -> <<"bool">>
      [] fn = "Run" -> <<"int8", "int8">>
      [] OTHER -> <<>>

getFunctionReturns(fn) ==
    CASE fn = "Remainder" -> <<"int", "int">>
      [] fn = "NewNil" -> <<"string">>
      [] fn = "Booler" -> <<"bool">>
      [] fn = "Run" -> <<"int64", "ptr">>
      [] fn \in {"NewError", "CustomErr", "NoError"} -> <<"error">>
      [] OTHER -> <<>>

Abs(a) == IF a < 0 THEN -a ELSE a
\* Go's integer division truncates toward zero
GoQuo(a, b) ==
    IF (a < 0) = (b < 0) THEN Abs(a) \div Abs(b) ELSE -(Abs(a) \div Abs(b))
GoRem(a, b) == a - b * GoQuo(a, b)

\* what running the callee on the cast arguments gives: its return values, or a panic
Body(fn, a) ==
    CASE fn = "Remainder" ->
            IF a[2].n = 0
            THEN [panics |-> TRUE, rets |-> <<>>]
            ELSE [panics |-> FALSE,
                  rets |-> <<IntV(GoQuo(a[1].n, a[2].n)), IntV(GoRem(a[1].n, a[2].n))>>]
      [] fn = "NewNil" ->
            [panics |-> FALSE,
             rets |-> <<IF a[1].n = 0 THEN StrV("default") ELSE StrV("set")>>]
      [] fn = "Booler" -> [panics |-> FALSE, rets |-> <<a[1]>>]
      [] fn = "Run" ->
            [panics |-> FALSE,
             rets |-> <<Int64V(WrapBits(a[1].n + a[2].n, 8)), PtrV(0)>>]
      [] fn = "NewError" -> [panics |-> FALSE, rets |-> <<ErrorString("some error")>>]
      [] fn = "CustomErr" -> [panics |-> FALSE, rets |-> <<CustomError("custom error")>>]
      [] fn = "NoError" -> [panics |-> FALSE, rets |-> <<Nil>>]
      [] fn = "Noop" -> [panics |-> FALSE, rets |-> <<>>]
      [] fn = "PanicNil" -> [panics |-> TRUE, rets |-> <<>>]

(***************************************************************************)
(* Wrapped handles: the closures tf.Function(t, fn) returned.              *)
(***************************************************************************)
Handles == {"hRem", "hRem2", "hNil", "hBool", "hRun", "hErr", "hCust", "hNoErr",
            "hNoop", "hPanicNil"}

HandleT(h) ==
    CASE h = "hRem" -> "TestRemainder"
      [] h = "hRem2" -> "TestRemainderAgain"
      [] h = "hNil" -> "TestNil"
      [] h = "hBool" -> "TestTrueFalse"
      [] h = "hRun" -> "TestCasting/nil_in_return_casting"
      [] h = "hErr" -> "TestError/Catches_basic_error"
      [] h = "hCust" -> "TestError/Catches_particular_class_error"
      [] h = "hNoErr" -> "TestNoError"
      [] h = "hNoop" -> "TestNoop"
      [] h = "hPanicNil" -> "TestPanicNil"

HandleFn(h) ==
    CASE h \in {"hRem", "hRem2"} -> "Remainder"
      [] h = "hNil" -> "NewNil"
      [] h = "hBool" -> "Booler"
      [] h = "hRun" -> "Run"
      [] h = "hErr" -> "NewError"
      [] h = "hCust" -> "CustomErr"
      [] h = "hNoErr" -> "NoError"
      [] h = "hNoop" -> "Noop"
      [] h = "hPanicNil" -> "PanicNil"

\* the F that the closure of handle h builds for args
Function(h, args) ==
    [t |-> HandleT(h),
     fn |-> HandleFn(h),
     args |-> args,
     fnArgsIn |-> getFunctionArgs(HandleFn(h)),
     fnArgsOut |-> getFunctionReturns(HandleFn(h)),
     fnName |-> getFunctionName(HandleFn(h))]

(***************************************************************************)
(* The naming registry.                                                    *)
(***************************************************************************)
\* mutant of lazyInit: the counter is set to 0 at every call, not only the first
lazyInit_Reset(m, name) == (name :> 0) @@ m

\* tf.go:131-133  if _, ok := funcMap[name]; !ok { funcMap[name] = 0 }
lazyInit(m, name) == IF name \in DOMAIN m THEN m ELSE (name :> 0) @@ m

\* mutant of increment: the increment is lost
increment_Lost(m, name) == m

\* tf.go:135  funcMap[name]++
increment(m, name) == [m EXCEPT ![name] = @ + 1]

RECURSIVE SumOf(_, _)
SumOf(m, S) ==
    IF S = {} THEN 0
    ELSE LET x == CHOOSE y \in S : TRUE IN m[x] + SumOf(m, S \ {x})

\* assertion calls entered so far in this process
TotalCalls == SumOf(funcMap, DOMAIN funcMap)

(***************************************************************************)
(* The casting loops of runFunc.                                           *)
(***************************************************************************)
\* tf.go:141-145, one argument at index idx; the index and Convert may panic
castArgPanics(f, idx) ==
    \/ idx > Len(f.fnArgsIn)
    \/ f.args[idx] # Nil /\ ~Convertible(f.args[idx], f.fnArgsIn[idx])

castArg(f, idx) ==
    IF f.args[idx] = Nil
    THEN ZeroOf(f.fnArgsIn[idx])
    ELSE Convert(f.args[idx], f.fnArgsIn[idx])

\* tf.go:154-158, one expected value at index idx
castExpectedPanics(f, exp, idx) ==
    \/ idx > Len(f.fnArgsOut)
    \/ exp[idx] # Nil /\ ~Convertible(exp[idx], f.fnArgsOut[idx])

\* mutant of castExpected: a nil expected value is passed through as nil
castExpected_KeepNil(f, exp, idx) ==
    IF exp[idx] = Nil
    THEN Nil
    ELSE Convert(exp[idx], f.fnArgsOut[idx])

castExpected(f, exp, idx) ==
    IF exp[idx] = Nil
    THEN ZeroOf(f.fnArgsOut[idx])
    ELSE Convert(exp[idx], f.fnArgsOut[idx])

(***************************************************************************)
(* The handlers (handleFunc) of Returns and Errors.                        *)
(***************************************************************************)
\* testify's ObjectsAreEqual on two []interface{}: reflect.DeepEqual
ObjectsAreEqual(exp, act) == exp.isNil = act.isNil /\ exp.e = act.e

\* tf.go:73-75  the failures assert.Equal records
ReturnsHandler(exp, actual) ==
    [panics |-> FALSE,
     diags |-> IF ObjectsAreEqual(exp, actual) THEN {} ELSE {"Not equal"}]

\* mutant of ErrorsSwitch: an error expectation is compared by message only
ErrorsSwitch_MessageOnly(firstArg, last) ==
    CASE firstArg.t \in {"string"} \cup ErrorTypes ->
            IF firstArg.s = last.s THEN {} ELSE {"Not equal"}
      [] OTHER -> {"unknown providen expectation"}

\* tf.go:117-126  the type switch on args[0]
ErrorsSwitch(firstArg, last) ==
    CASE firstArg.t = "string" ->
            IF firstArg.s = last.s THEN {} ELSE {"Not equal"}
      [] firstArg.t \in ErrorTypes ->
            (IF firstArg.s = last.s THEN {} ELSE {"Not equal"})
            \cup (IF firstArg.t = last.t THEN {} ELSE {"Object expected to be of type"})
      [] OTHER -> {"unknown providen expectation"}

\* mutant of ErrorsHandler: the checks of the last return value are missing
ErrorsHandler_Unchecked(args, actual) ==
    [panics |-> FALSE,
     diags |-> IF args.isNil \/ Len(args.e) = 0 \/ Len(actual.e) = 0
               THEN {}
               ELSE ErrorsSwitch(args.e[1], actual.e[Len(actual.e)])]

\* tf.go:95-127  args are the values given to Errors, actual is runFunc's returns.
\* last.(error) holds only for a non-nil value whose type has Error(), so the
\* assert.Error that follows it (tf.go:110) records nothing.
ErrorsHandler(args, actual) ==
    IF Len(actual.e) = 0
    THEN [panics |-> FALSE, diags |-> {"function don't return anything"}]
    ELSE LET last == actual.e[Len(actual.e)] IN
         IF last.t \notin ErrorTypes
         THEN [panics |-> FALSE, diags |-> {"last argument is not an error"}]
         ELSE IF args.isNil
         THEN [panics |-> FALSE, diags |-> {}]
         ELSE IF Len(args.e) = 0
         THEN [panics |-> TRUE, diags |-> {}]
         ELSE [panics |-> FALSE, diags |-> ErrorsSwitch(args.e[1], last)]

(***************************************************************************)
(* F.runFunc, step by step.                                                *)
(***************************************************************************)
NoSubtest == [parent |-> "", name |-> "", ctr |-> 0]
NoCall == [via |-> "none", handler |-> "none", h |-> "none", args |-> <<>>,
           hargs |-> NilSlice, before |-> 0]
NoPrev == [via |-> "none", h |-> "none", args |-> <<>>, hargs |-> NilSlice,
           outcome |-> "none", invoked |-> 0, consumed |-> 0]

\* the F of the assertion in progress
F == Function(cur.h, cur.args)

\* the counter of display name n, 0 before its first use
Counter(n) == IF n \in DOMAIN funcMap THEN funcMap[n] ELSE 0

\* what the finished (or crashed) assertion call leaves behind
Summary ==
    [via |-> cur.via, h |-> cur.h, args |-> cur.args, hargs |-> cur.hargs,
     outcome |-> outcome, invoked |-> invoked,
     consumed |-> IF cur.h = "none" THEN 0 ELSE Counter(F.fnName) - cur.before]

\* tf.go:130-135  entry of runFunc: the registry is updated before the sub-test opens.
\* hargs are the values the assertion method was given, exp the slice runFunc gets.
runFunc(via, h, args, handler, hargs, exp) ==
    LET name == Function(h, args).fnName IN
    /\ pc \in {"idle", "end"}
    /\ TotalCalls < MaxCalls
    /\ funcMap' = increment(lazyInit(funcMap, name), name)
    /\ cur' = [via |-> via, handler |-> handler, h |-> h, args |-> args,
               hargs |-> hargs, before |-> Counter(name)]
    /\ pc' = "counted"
    /\ expected' = exp
    /\ subtest' = NoSubtest
    /\ argsIn' = <<>>
    /\ returns' = NilSlice
    /\ diags' = {}
    /\ outcome' = "none"
    /\ invoked' = 0
    /\ steps' = <<>>
    /\ UNCHANGED got
    /\ UNCHANGED outside

\* tf.go:72-76
ReturnsVia(via, h, args, exp) == runFunc(via, h, args, "Returns", exp, exp)

Returns(h, args, exp) == ReturnsVia("Returns", h, args, exp)

\* tf.go:94-128  runFunc gets no expected values; the handler closes over args
Errors(h, args, eargs) == runFunc("Errors", h, args, "Errors", eargs, NilSlice)

\* mutant of True: it expects false
True_ExpectsFalse(h, args) == ReturnsVia("True", h, args, Slice(<<BoolV(FALSE)>>))

\* tf.go:177-179
True(h, args) == ReturnsVia("True", h, args, Slice(<<BoolV(TRUE)>>))

\* tf.go:193-195
False(h, args) == ReturnsVia("False", h, args, Slice(<<BoolV(FALSE)>>))

\* a panic inside the sub-test's goroutine: the test binary dies
Crash ==
    /\ pc' = "crashed"
    /\ outcome' = "panic"

\* tf.go:137  the name is formatted from the registry and t.Run opens the sub-test
OpenSubTest ==
    /\ pc = "counted"
    /\ subtest' = [parent |-> F.t, name |-> F.fnName, ctr |-> funcMap[F.fnName]]
    /\ got' = [got EXCEPT ![cur.h] = Append(@, funcMap[F.fnName])]
    /\ steps' = Append(steps, "open")
    /\ pc' = "open"
    /\ UNCHANGED <<funcMap, cur, argsIn, returns, expected, diags, outcome, invoked, prev>>
    /\ UNCHANGED outside

\* tf.go:139-146
CastArgs ==
    /\ pc = "open"
    /\ steps' = Append(steps, "castArgs")
    /\ IF \E idx \in 1..Len(F.args) : castArgPanics(F, idx)
       THEN Crash /\ UNCHANGED argsIn
       ELSE /\ argsIn' = [idx \in 1..Len(F.args) |-> castArg(F, idx)]
            /\ pc' = "args"
            /\ UNCHANGED outcome
    /\ UNCHANGED <<funcMap, cur, subtest, returns, expected, diags, invoked, got, prev>>
    /\ UNCHANGED outside

\* mutant of CallFn: the callee is called once for its panics and again for its values
CallFn_Twice ==
    /\ pc = "args"
    /\ steps' = Append(steps, "call")
    /\ IF Len(argsIn) # Len(F.fnArgsIn)
       THEN Crash /\ UNCHANGED <<returns, invoked>>
       ELSE IF Body(F.fn, argsIn).panics
       THEN Crash /\ invoked' = invoked + 1 /\ UNCHANGED returns
       ELSE /\ invoked' = invoked + 2
            /\ returns' = Slice(Body(F.fn, argsIn).rets)
            /\ pc' = "called"
            /\ UNCHANGED outcome
    /\ UNCHANGED <<funcMap, cur, subtest, argsIn, expected, diags, got, prev>>
    /\ UNCHANGED outside

\* tf.go:148-151  reflect's Call panics on a wrong argument count; a panic of the
\* callee is not recovered
CallFn ==
    /\ pc = "args"
    /\ steps' = Append(steps, "call")
    /\ IF Len(argsIn) # Len(F.fnArgsIn)
       THEN Crash /\ UNCHANGED <<returns, invoked>>
       ELSE /\ invoked' = invoked + 1
            /\ IF Body(F.fn, argsIn).panics
               THEN Crash /\ UNCHANGED returns
               ELSE /\ returns' = Slice(Body(F.fn, argsIn).rets)
                    /\ pc' = "called"
                    /\ UNCHANGED outcome
    /\ UNCHANGED <<funcMap, cur, subtest, argsIn, expected, diags, got, prev>>
    /\ UNCHANGED outside

\* tf.go:153-159  expected is rewritten in place
CastExpected ==
    /\ pc = "called"
    /\ steps' = Append(steps, "castExpected")
    /\ IF \E idx \in 1..Len(expected.e) : castExpectedPanics(F, expected.e, idx)
       THEN Crash /\ UNCHANGED expected
       ELSE /\ expected' = [expected EXCEPT
                   !.e = [idx \in 1..Len(expected.e) |-> castExpected(F, expected.e, idx)]]
            /\ pc' = "expected"
            /\ UNCHANGED outcome
    /\ UNCHANGED <<funcMap, cur, subtest, argsIn, returns, diags, invoked, got, prev>>
    /\ UNCHANGED outside

\* the handler runFunc was given
Handler ==
    IF cur.handler = "Errors"
    THEN ErrorsHandler(cur.hargs, returns)
    ELSE ReturnsHandler(expected, returns)

\* tf.go:161-162  the handler compares, then the sub-test ends passed or failed
Handle ==
    /\ pc = "expected"
    /\ steps' = Append(steps, "compare")
    /\ IF Handler.panics
       THEN Crash /\ UNCHANGED diags
       ELSE /\ diags' = Handler.diags
            /\ outcome' = IF Handler.diags = {} THEN "pass" ELSE "fail"
            /\ pc' = "end"
    /\ UNCHANGED <<funcMap, cur, subtest, argsIn, returns, expected, invoked, got, prev>>
    /\ UNCHANGED outside

(***************************************************************************)
(* The assertion calls a test may make: [via, h, args, hargs], hargs being *)
(* the values given to Returns or Errors.                                  *)
(***************************************************************************)
CallsOf(via, hs, argss, hargss) ==
    {[via |-> via, h |-> h, args |-> a, hargs |-> x] : h \in hs, a \in argss, x \in hargss}

RemainderReturns ==
    CallsOf("Returns", {"hRem"},
            {<<IntV(10), IntV(3)>>, <<IntV(10), IntV(2)>>, <<Nil, IntV(3)>>},
            {Slice(<<IntV(3), IntV(1)>>), Slice(<<IntV(5), IntV(0)>>),
             Slice(<<IntV(3), IntV(2)>>),
             Slice(<<IntV(3)>>), Slice(<<IntV(3), IntV(1), IntV(0)>>),
             Slice(<<Nil, Nil>>), Slice(<<IntV(0), IntV(0)>>),
             Slice(<<Int8V(3), Int64V(1)>>), Slice(<<StrV("x"), IntV(1)>>), NilSlice})
    \cup CallsOf("Returns", {"hRem"}, {<<IntV(17), IntV(7)>>},
            {Slice(<<IntV(2), IntV(3)>>)})
    \cup CallsOf("Returns", {"hRem"},
            {<<IntV(10)>>, <<IntV(10), IntV(3), IntV(1)>>, <<StrV("x"), IntV(3)>>,
             <<IntV(10), Nil>>},
            {Slice(<<IntV(3), IntV(1)>>)})
    \cup CallsOf("Returns", {"hRem2"}, {<<IntV(10), IntV(3)>>},
            {Slice(<<IntV(3), IntV(1)>>), Slice(<<IntV(3), IntV(2)>>)})

NewNilReturns ==
    CallsOf("Returns", {"hNil"}, {<<Nil>>, <<PtrV(0)>>, <<PtrV(1)>>},
            {Slice(<<StrV("default")>>), Slice(<<StrV("set")>>), Slice(<<Nil>>),
             Slice(<<IntV(65)>>)})
    \cup CallsOf("Returns", {"hNil"}, {<<IntV(1)>>}, {Slice(<<StrV("default")>>)})

BoolerReturns ==
    CallsOf("Returns", {"hBool"}, {<<BoolV(TRUE)>>, <<BoolV(FALSE)>>, <<Nil>>},
            {Slice(<<BoolV(TRUE)>>), Slice(<<BoolV(FALSE)>>), Slice(<<Nil>>)})

RunReturns ==
    CallsOf("Returns", {"hRun"},
            {<<IntV(1), IntV(2)>>, <<IntV(130), IntV(0)>>, <<Nil, Nil>>},
            {Slice(<<IntV(3), Nil>>), Slice(<<IntV(3), PtrV(0)>>), Slice(<<IntV(3)>>),
             Slice(<<Nil, Nil>>), Slice(<<IntV(-126), Nil>>)})

ErrorReturns ==
    CallsOf("Returns", {"hErr", "hCust", "hNoErr"}, {<<>>},
            {Slice(<<Nil>>), Slice(<<ErrorString("some error")>>),
             Slice(<<StrV("some error")>>)})

NoopReturns ==
    CallsOf("Returns", {"hNoop"}, {<<>>},
            {NilSlice, Slice(<<>>), Slice(<<IntV(1)>>), Slice(<<Nil>>)})
    \cup CallsOf("Returns", {"hNoop"}, {<<IntV(1)>>}, {NilSlice})

ErrorsArgs ==
    {NilSlice, Slice(<<>>), Slice(<<Nil>>), Slice(<<IntV(42)>>),
     Slice(<<StrV("some error")>>), Slice(<<StrV("custom error")>>),
     Slice(<<ErrorString("some error")>>), Slice(<<ErrorString("custom error")>>),
     Slice(<<CustomError("some error")>>), Slice(<<CustomError("custom error")>>),
     Slice(<<StrV("some error"), IntV(42)>>), Slice(<<IntV(42), StrV("some error")>>),
     Slice(<<StrV("custom error"), StrV("some error")>>)}

ErrorsCalls ==
    CallsOf("Errors", {"hErr", "hCust"}, {<<>>}, ErrorsArgs)
    \cup CallsOf("Errors", {"hNoErr", "hNoop"}, {<<>>},
                 {NilSlice, Slice(<<>>), Slice(<<IntV(42)>>), Slice(<<StrV("some error")>>),
                  Slice(<<StrV("some error"), IntV(42)>>)})
    \cup CallsOf("Errors", {"hBool"}, {<<BoolV(TRUE)>>}, {NilSlice, Slice(<<IntV(42)>>)})
    \cup CallsOf("Errors", {"hRem"}, {<<IntV(10), IntV(3)>>, <<IntV(10)>>}, {NilSlice})

TrueFalseCalls ==
    CallsOf("True", {"hBool"}, {<<BoolV(TRUE)>>, <<BoolV(FALSE)>>, <<Nil>>}, {NilSlice})
    \cup CallsOf("False", {"hBool"}, {<<BoolV(TRUE)>>, <<BoolV(FALSE)>>, <<Nil>>}, {NilSlice})
    \cup CallsOf("True", {"hNil"}, {<<Nil>>}, {NilSlice})
    \cup CallsOf("True", {"hRem"}, {<<IntV(10), IntV(3)>>}, {NilSlice})
    \cup CallsOf("True", {"hNoop", "hNoErr"}, {<<>>}, {NilSlice})
    \cup CallsOf("False", {"hNoop"}, {<<>>}, {NilSlice})

Calls ==
    RemainderReturns \cup NewNilReturns \cup BoolerReturns \cup RunReturns
    \cup ErrorReturns \cup NoopReturns \cup ErrorsCalls \cup TrueFalseCalls

(***************************************************************************)
(* The program: one test goroutine making assertion calls in sequence.     *)
(***************************************************************************)
\* package-level state of tf.go when the test binary starts
TfInit ==
    /\ funcMap = [n \in {} |-> 0]
    /\ pc = "idle"
    /\ cur = NoCall
    /\ subtest = NoSubtest
    /\ argsIn = <<>>
    /\ returns = NilSlice
    /\ expected = NilSlice
    /\ diags = {}
    /\ outcome = "none"
    /\ invoked = 0
    /\ steps = <<>>
    /\ got = [h \in Handles |-> <<>>]
    /\ prev = NoPrev

\* no environment helper in use
NoEnviron == [n \in {} |-> 0]
EnvIdle ==
    /\ environ = NoEnviron
    /\ resetEnvs = <<>>
    /\ envLog = <<>>

\* no HTTP test being served
NoTests == [multi |-> FALSE, before |-> FALSE, n |-> 0]
NoTest == [defined |-> FALSE]
NoRecorder == [written |-> FALSE]
HTTPIdle ==
    /\ tests = NoTests
    /\ test = NoTest
    /\ hpc = "idle"
    /\ stepIdx = 0
    /\ recorder = NoRecorder
    /\ events = <<>>
    /\ results = <<>>
    /\ handled = <<>>

\* no assertion call on a goroutine of its own
GoIdle == gor = <<>>

Init == TfInit /\ EnvIdle /\ HTTPIdle /\ GoIdle

\* one assertion method called on the F of call c
Assertion(c) ==
    \/ c.via = "Returns" /\ Returns(c.h, c.args, c.hargs)
    \/ c.via = "Errors" /\ Errors(c.h, c.args, c.hargs)
    \/ c.via = "True" /\ True(c.h, c.args)
    \/ c.via = "False" /\ False(c.h, c.args)

Next ==
    \/ \E c \in Calls : Assertion(c) /\ UNCHANGED prev
    \/ OpenSubTest
    \/ CastArgs
    \/ CallFn
    \/ CastExpected
    \/ Handle

Spec == Init /\ [][Next]_vars

(***************************************************************************)
(* The same program observed over pairs of assertion calls: prev keeps the *)
(* summary of the call before the current one, and the test binary may be  *)
(* run again (a call that panicked ends its process).                      *)
(***************************************************************************)
PairCalls ==
    CallsOf("True", {"hBool"}, {<<BoolV(TRUE)>>, <<BoolV(FALSE)>>, <<Nil>>}, {NilSlice})
    \cup CallsOf("False", {"hBool"}, {<<BoolV(TRUE)>>, <<BoolV(FALSE)>>, <<Nil>>}, {NilSlice})
    \cup CallsOf("Returns", {"hBool"}, {<<BoolV(TRUE)>>, <<BoolV(FALSE)>>, <<Nil>>},
                 {Slice(<<BoolV(TRUE)>>), Slice(<<BoolV(FALSE)>>), Slice(<<Nil>>)})
    \cup CallsOf("True", {"hNil", "hNoop"}, {<<Nil>>}, {NilSlice})
    \cup CallsOf("False", {"hNoop"}, {<<>>}, {NilSlice})
    \cup CallsOf("True", {"hNoop"}, {<<>>}, {NilSlice})
    \cup CallsOf("Returns", {"hNoop"}, {<<>>},
                 {Slice(<<BoolV(TRUE)>>), Slice(<<BoolV(FALSE)>>)})
    \cup CallsOf("Returns", {"hNil"}, {<<Nil>>, <<PtrV(0)>>},
                 {Slice(<<StrV("default")>>), Slice(<<Nil>>), Slice(<<StrV("")>>),
                  Slice(<<BoolV(TRUE)>>)})
    \cup CallsOf("Returns", {"hRun"},
                 {<<IntV(1), IntV(2)>>, <<Nil, Nil>>, <<Int8V(0), Int8V(0)>>},
                 {Slice(<<IntV(3), Nil>>), Slice(<<IntV(3), PtrV(0)>>),
                  Slice(<<Nil, Nil>>), Slice(<<Int64V(0), PtrV(0)>>)})
    \cup CallsOf("Returns", {"hNoErr"}, {<<>>}, {Slice(<<Nil>>)})
    \cup CallsOf("Errors", {"hNoErr", "hErr"}, {<<>>}, {NilSlice})

\* the test binary is started again: package-level state is as at Init
Restart ==
    /\ pc \in {"end", "crashed"}
    /\ prev' = Summary
    /\ funcMap' = [n \in {} |-> 0]
    /\ pc' = "idle"
    /\ cur' = NoCall
    /\ subtest' = NoSubtest
    /\ argsIn' = <<>>
    /\ returns' = NilSlice
    /\ expected' = NilSlice
    /\ diags' = {}
    /\ outcome' = "none"
    /\ invoked' = 0
    /\ steps' = <<>>
    /\ got' = [h \in Handles |-> <<>>]
    /\ UNCHANGED outside

NextPair ==
    \/ \E c \in PairCalls :
          Assertion(c) /\ prev' = IF cur.h = "none" THEN prev ELSE Summary
    \/ OpenSubTest
    \/ CastArgs
    \/ CallFn
    \/ CastExpected
    \/ Handle
    \/ Restart

SpecPair == Init /\ [][NextPair]_vars

(***************************************************************************)
(* Properties.                                                             *)
(***************************************************************************)
Range(seq) == {seq[i] : i \in 1..Len(seq)}
Increasing(seq) == \A i, j \in 1..Len(seq) : i < j => seq[i] < seq[j]
DisplayNames == {getFunctionName(fn) : fn \in Callees}
HandlesNamed(n) == {h \in Handles : getFunctionName(HandleFn(h)) = n}
InCall == cur.h # "none"
Done == pc \in {"end", "crashed"}

RECURSIVE LenSum(_)
LenSum(hs) ==
    IF hs = {} THEN 0
    ELSE LET h == CHOOSE x \in hs : TRUE IN Len(got[h]) + LenSum(hs \ {h})

\* sub-tests opened so far under display name n
OpenedFor(n) == LenSum(HandlesNamed(n))

\* assertion calls made so far for display name n: those whose sub-test is open or
\* over, and the one that has entered runFunc and not yet opened its sub-test
CallsFor(n) ==
    OpenedFor(n) + (IF pc = "counted" /\ F.fnName = n THEN 1 ELSE 0)

\* C1 (as stated): the k-th assertion call made through a wrapped handle runs under
\* the sub-test name f#k, whatever else happened in the process.
C1_PerHandleNumbering ==
    \A h \in Handles : \A k \in 1..Len(got[h]) : got[h][k] = k

\* C1 (amended): the sub-test names generated for a display name f, by all the
\* handles that carry it, are f#1 .. f#N in call order with no collision and no gap;
\* a handle's own calls are f#1 .. f#N when no other handle of that name was used.
\* The sub-test that is open carries the name and the counter its call received.
C1_PerNameNumbering ==
    /\ \A n \in DisplayNames :
          /\ \A h \in HandlesNamed(n) : Increasing(got[h])
          /\ UNION {Range(got[h]) : h \in HandlesNamed(n)} = 1..OpenedFor(n)
          /\ \A h \in HandlesNamed(n) :
                (\A o \in HandlesNamed(n) \ {h} : got[o] = <<>>)
                    => got[h] = [k \in 1..Len(got[h]) |-> k]
    /\ (InCall /\ pc # "counted") =>
          /\ subtest.name = F.fnName
          /\ subtest.parent = F.t
          /\ subtest.ctr = got[cur.h][Len(got[cur.h])]

\* C1 witness: three calls under one display name through two handles, the second
\* handle's call falling between the first handle's two, the last one having failed.
C1_Witness ==
    /\ got["hRem"] = <<1, 3>>
    /\ got["hRem2"] = <<2>>
    /\ pc = "end"
    /\ outcome = "fail"

C5_State ==
    \A n \in DisplayNames :
        /\ Counter(n) = CallsFor(n)
        /\ n \in DOMAIN funcMap <=> CallsFor(n) > 0
        /\ \A h1, h2 \in HandlesNamed(n) :
              \A i \in 1..Len(got[h1]) : \A j \in 1..Len(got[h2]) :
                  (h1 # h2 \/ i # j) => got[h1][i] # got[h2][j]

C5_Step ==
    \A n \in DOMAIN funcMap : n \in DOMAIN funcMap' /\ funcMap'[n] >= funcMap[n]

\* C5: under sequential assertion calls the counter of a display name equals the
\* number of assertion calls made so far for that name (the name is registered
\* lazily, at its first call), no two calls for one name receive the same counter
\* value, and no step lowers or removes a counter.
C5_CounterCountsCalls == [](C5_State) /\ [][C5_Step]_vars

\* C5 witness: one display name ("1", the closures of TestError and TestCasting)
\* counted across three handles of different parent tests.
C5_Witness ==
    /\ "1" \in DOMAIN funcMap
    /\ funcMap["1"] = 3
    /\ got["hErr"] = <<2>>
    /\ got["hCust"] = <<1>>
    /\ got["hRun"] = <<3>>

\* the callee ran and its return values were captured
Returned == InCall /\ ~returns.isNil

\* the values given to Returns match what the callee returned: as many as the
\* callee's declared return values, each one convertible (or nil) and, once cast to
\* the declared return type, equal to the actual value at its position
ExpectedMatches ==
    /\ Len(cur.hargs.e) = Len(F.fnArgsOut)
    /\ \A idx \in 1..Len(cur.hargs.e) :
          /\ ~castExpectedPanics(F, cur.hargs.e, idx)
          /\ castExpected(F, cur.hargs.e, idx) = returns.e[idx]

\* every expected value standing at a position the callee has a return value for
\* is nil or convertible to the return type there
ExpectedConvertible ==
    \A idx \in 1..Len(cur.hargs.e) :
        (idx <= Len(F.fnArgsOut) /\ cur.hargs.e[idx] # Nil)
            => Convertible(cur.hargs.e[idx], F.fnArgsOut[idx])

\* C2 (as stated, for expected values that are convertible): once the callee has
\* returned, Returns passes exactly when the expected values match the actual ones
\* in number and, cast, position by position, and in every other case the sub-test
\* ends failed and the process is not aborted; for every return arity, zero included.
C2_ReturnsPassesIffMatch ==
    (cur.via = "Returns" /\ Returned /\ Done /\ ExpectedConvertible) =>
        outcome = IF ExpectedMatches THEN "pass" ELSE "fail"

\* the order of the steps of one assertion call
StepOrder == <<"open", "castArgs", "call", "castExpected", "compare">>

\* C4: the steps of an assertion call happen in the order open sub-test, cast
\* arguments, invoke, cast expected, compare; a call that ends in Pass or Fail has
\* gone through all of them and has invoked the callee exactly once; no call invokes
\* it more than once, and none before its arguments are cast.
C4_StepsInOrder ==
    /\ steps = SubSeq(StepOrder, 1, Len(steps))
    /\ invoked <= 1
    /\ invoked = 1 => Len(steps) >= 3 /\ Len(argsIn) = Len(cur.args)
    /\ Len(steps) >= 1 => subtest # NoSubtest
    /\ outcome \in {"pass", "fail"} <=> pc = "end"
    /\ pc = "end" => steps = StepOrder /\ invoked = 1

\* C4 witness: a failed assertion that went through every step.
C4_Witness ==
    /\ pc = "end"
    /\ outcome = "fail"
    /\ cur.via = "Returns"
    /\ cur.h = "hRem"
    /\ cur.args = <<IntV(10), IntV(3)>>
    /\ cur.hargs = Slice(<<IntV(3), IntV(2)>>)
    /\ returns = Slice(<<IntV(3), IntV(1)>>)

\* the values Errors was given do not have a recognized shape: more than one value,
\* or one value that is neither a string nor an error
Unrecognized(eargs) ==
    /\ ~eargs.isNil
    /\ \/ Len(eargs.e) > 1
       \/ Len(eargs.e) = 1 /\ eargs.e[1].t \notin {"string"} \cup ErrorTypes

\* C6 (as stated, whatever the wording of the diagnostic): Errors given more than
\* one expected value, or one value that is neither text nor an error, ends the
\* sub-test failed, whatever the callee returned.
C6_UnrecognizedFails ==
    (cur.via = "Errors" /\ Returned /\ Done /\ Unrecognized(cur.hargs)) =>
        outcome = "fail"

\* the last return value of the callee is a non-nil error
LastIsError ==
    /\ Len(returns.e) >= 1
    /\ returns.e[Len(returns.e)] # Nil
    /\ returns.e[Len(returns.e)].t \in ErrorTypes

\* C7: Errors() with no expected value passes if and only if the callee has at
\* least one return value and the last one is a non-nil error, whatever its message
\* and concrete type; it ends failed when the callee returned nothing or when the
\* last value carries no error.
C7_ErrorsNoArgs ==
    (cur.via = "Errors" /\ cur.hargs.isNil /\ Done) =>
        /\ outcome = "pass" <=> (Returned /\ LastIsError)
        /\ (Returned /\ ~LastIsError) => outcome = "fail"
        /\ (Returned /\ Len(returns.e) = 0) =>
              diags = {"function don't return anything"}

\* C7 witness: Errors() passed on a callee returning a populated error.
C7_Witness ==
    /\ cur.via = "Errors" /\ cur.hargs.isNil /\ pc = "end"
    /\ outcome = "pass"
    /\ returns = Slice(<<CustomError("custom error")>>)

\* C8: Errors(x) with exactly one expected value passes only if the message of the
\* actual error equals the expected message (x itself when x is a string, x.Error()
\* when x is an error), and when x is an error only if the concrete type of the
\* actual error is x's; an equal message under another concrete type fails.
C8_ErrorsOneArg ==
    (cur.via = "Errors" /\ ~cur.hargs.isNil /\ Len(cur.hargs.e) = 1 /\ Done) =>
        LET x == cur.hargs.e[1]
            last == returns.e[Len(returns.e)]
        IN /\ outcome = "pass" =>
                /\ Returned /\ LastIsError
                /\ x.t \in {"string"} \cup ErrorTypes
                /\ last.s = x.s
                /\ x.t \in ErrorTypes => last.t = x.t
           /\ (Returned /\ LastIsError /\ x.t \in ErrorTypes /\ last.s = x.s
                 /\ last.t # x.t) => outcome = "fail"

\* C8 witness: the message matches and the concrete type does not.
C8_Witness ==
    /\ cur.via = "Errors" /\ pc = "end"
    /\ cur.hargs = Slice(<<CustomError("some error")>>)
    /\ returns = Slice(<<ErrorString("some error")>>)
    /\ outcome = "fail"
    /\ diags = {"Object expected to be of type"}

\* the call's inputs do not fit the callee's signature: the number of arguments is
\* not its parameter count, or an argument or an expected value is not convertible
\* to the declared type at its position
Misfit ==
    \/ Len(cur.args) # Len(F.fnArgsIn)
    \/ \E idx \in 1..Len(cur.args) :
          /\ idx <= Len(F.fnArgsIn)
          /\ cur.args[idx] # Nil
          /\ ~Convertible(cur.args[idx], F.fnArgsIn[idx])
    \/ /\ cur.handler = "Returns"
       /\ \E idx \in 1..Len(cur.hargs.e) :
             /\ idx <= Len(F.fnArgsOut)
             /\ cur.hargs.e[idx] # Nil
             /\ ~Convertible(cur.hargs.e[idx], F.fnArgsOut[idx])

\* C10 (as stated): an assertion call whose inputs do not fit the callee's
\* signature ends with a failure reported through the test runner; it never panics.
C10_MisfitFailsWithoutPanic ==
    (InCall /\ Misfit) =>
        /\ outcome # "panic"
        /\ Done => outcome = "fail"

(***************************************************************************)
(* Properties of pairs of assertion calls (SpecPair).                      *)
(***************************************************************************)
\* a is b with nil put for zero values of the declared types, or the other way round
NilForZero(a, b, types) ==
    /\ Len(a) = Len(b)
    /\ \A idx \in 1..Len(a) :
          \/ a[idx] = b[idx]
          \/ /\ idx <= Len(types)
             /\ {a[idx], b[idx]} = {Nil, ZeroOf(types[idx])}

\* the finished call and the one before it are Returns calls on one handle that
\* differ only in nil standing for a zero value, among the arguments or the expected
NilZeroPair ==
    /\ Done
    /\ prev.h = cur.h
    /\ prev.via = "Returns" /\ cur.via = "Returns"
    /\ prev.hargs.isNil = cur.hargs.isNil
    /\ NilForZero(prev.args, cur.args, F.fnArgsIn)
    /\ NilForZero(prev.hargs.e, cur.hargs.e, F.fnArgsOut)

\* C3: a nil argument reaches the callee as the zero value of the declared parameter
\* type at its position, a nil expected value is compared as the zero value of the
\* declared return type at its position, and so two Returns calls that differ only
\* in nil standing for such a zero value end the same way.
C3_NilIsZeroValue ==
    /\ (InCall /\ Len(steps) >= 2 /\ pc # "crashed") =>
          \A idx \in 1..Len(cur.args) :
              cur.args[idx] = Nil => argsIn[idx] = ZeroOf(F.fnArgsIn[idx])
    /\ invoked = 1 =>
          \A idx \in 1..Len(cur.args) :
              cur.args[idx] = Nil => argsIn[idx] = ZeroOf(F.fnArgsIn[idx])
    /\ (cur.handler = "Returns" /\ pc \in {"expected", "end"}) =>
          \A idx \in 1..Len(cur.hargs.e) :
              cur.hargs.e[idx] = Nil => expected.e[idx] = ZeroOf(F.fnArgsOut[idx])
    /\ NilZeroPair => (outcome = prev.outcome /\ invoked = prev.invoked)

\* C3 witness: Run(1, 2).Returns(3, nil) passed after Run(1, 2).Returns(3, (*MyStruct)(nil)).
C3_Witness ==
    /\ NilZeroPair
    /\ cur.h = "hRun"
    /\ cur.args = <<IntV(1), IntV(2)>>
    /\ cur.hargs = Slice(<<IntV(3), Nil>>)
    /\ prev.hargs = Slice(<<IntV(3), PtrV(0)>>)
    /\ expected = Slice(<<Int64V(3), PtrV(0)>>)
    /\ outcome = "pass"

\* x is a True() call and y the Returns(true) call on the same F, or False() and
\* Returns(false)
SugarOf(x, y) ==
    /\ x.h = y.h
    /\ x.args = y.args
    /\ y.via = "Returns"
    /\ \/ x.via = "True" /\ y.hargs = Slice(<<BoolV(TRUE)>>)
       \/ x.via = "False" /\ y.hargs = Slice(<<BoolV(FALSE)>>)

\* C9: True() and False() end as Returns(true) and Returns(false) on the same F end:
\* same outcome (pass, fail or panic), same number of invocations of the callee, one
\* counter increment each; and they fail when the callee returns the opposite boolean.
C9_TrueFalseAreReturns ==
    /\ (Done /\ (SugarOf(prev, Summary) \/ SugarOf(Summary, prev))) =>
          /\ outcome = prev.outcome
          /\ invoked = prev.invoked
          /\ Summary.consumed = 1 /\ prev.consumed = 1
    /\ (Done /\ cur.via = "True" /\ returns = Slice(<<BoolV(FALSE)>>)) => outcome = "fail"
    /\ (Done /\ cur.via = "False" /\ returns = Slice(<<BoolV(TRUE)>>)) => outcome = "fail"
    /\ (Done /\ cur.via = "True" /\ returns = Slice(<<BoolV(TRUE)>>)) => outcome = "pass"
    /\ (Done /\ cur.via = "False" /\ returns = Slice(<<BoolV(FALSE)>>)) => outcome = "pass"

\* C9 witness: Booler(false).True() failed after Booler(false).Returns(true) failed.
C9_Witness ==
    /\ Done
    /\ SugarOf(Summary, prev)
    /\ cur.via = "True"
    /\ cur.h = "hBool"
    /\ returns = Slice(<<BoolV(FALSE)>>)
    /\ outcome = "fail"
    /\ prev.outcome = "fail"

(***************************************************************************)
(* Panics.  tf.go as given has no Panics method; it is modelled from       *)
(* section 4.3 of the specification: at most one expected value, the       *)
(* callee is invoked inside a recovery scope, a non-nil recovered value is *)
(* asserted, and a textual expectation is compared with the debug-         *)
(* formatted string of a non-textual recovered value.  The sub-test is     *)
(* named and opened and the arguments are cast as for the other assertion  *)
(* methods (runFunc, OpenSubTest, CastArgs).                               *)
(***************************************************************************)
\* a runtime.Error with message msg
RuntimeError(msg) == [t |-> "runtime.Error", n |-> 0, s |-> msg]

\* what recover() gives after the callee ran on a: Nil when it returned normally, and
\* Nil for panic(nil)
Recovered(fn, a) ==
    CASE ~Body(fn, a).panics -> Nil
      [] fn = "Remainder" -> RuntimeError("runtime error: integer divide by zero")
      [] OTHER -> Nil

Textual(v) == v.t = "string"

\* the debug-formatted string of a recovered value
DebugString(v) ==
    CASE v.t \in {"string", "runtime.Error"} \cup ErrorTypes -> v.s
      [] v.t \in IntKinds -> ToString(v.n)
      [] OTHER -> "<" \o v.t \o ">"

\* mutant of PanicsHandler: a recovered nil counts as a panic
PanicsHandler_AnyRecovered(exp, r) ==
    IF Len(exp.e) = 0 THEN {}
    ELSE IF exp.e[1] = r THEN {} ELSE {"Not equal"}

\* the assertions on the recovered value r
PanicsHandler(exp, r) ==
    IF r = Nil THEN {"did not panic"}
    ELSE IF Len(exp.e) = 0 THEN {}
    ELSE LET e == exp.e[1]
             actual == IF Textual(e) /\ ~Textual(r) THEN StrV(DebugString(r)) ELSE r
         IN IF e = actual THEN {} ELSE {"Not equal"}

\* Panics(expected...): more than one expected value fails the host test at once,
\* before the registry is touched and before any sub-test runs
Panics(h, args, exp) ==
    IF Len(exp.e) > 1
    THEN /\ pc \in {"idle", "end"}
         /\ TotalCalls < MaxCalls
         /\ cur' = [via |-> "Panics", handler |-> "Panics", h |-> h, args |-> args,
                    hargs |-> exp, before |-> Counter(Function(h, args).fnName)]
         /\ pc' = "fatal"
         /\ outcome' = "fatal"
         /\ diags' = {"Panics takes at most one expected value"}
         /\ expected' = exp
         /\ subtest' = NoSubtest
         /\ argsIn' = <<>>
         /\ returns' = NilSlice
         /\ invoked' = 0
         /\ steps' = <<>>
         /\ UNCHANGED <<funcMap, got>>
         /\ UNCHANGED outside
    ELSE runFunc("Panics", h, args, "Panics", exp, exp)

\* the callee is invoked inside the recovery scope and the recovered value asserted
PanicsCall ==
    /\ pc = "args"
    /\ cur.handler = "Panics"
    /\ steps' = Append(steps, "call")
    /\ invoked' = invoked + 1
    /\ diags' = PanicsHandler(cur.hargs, Recovered(F.fn, argsIn))
    /\ outcome' = IF PanicsHandler(cur.hargs, Recovered(F.fn, argsIn)) = {}
                  THEN "pass" ELSE "fail"
    /\ pc' = "end"
    /\ UNCHANGED <<funcMap, cur, subtest, argsIn, returns, expected, got, prev>>
    /\ UNCHANGED outside

\* Panics calls whose arguments fit the callee in number and type
DivideByZero == "runtime error: integer divide by zero"
PanicsExpected ==
    {NilSlice, Slice(<<StrV(DivideByZero)>>), Slice(<<StrV("boom")>>),
     Slice(<<RuntimeError(DivideByZero)>>), Slice(<<IntV(3)>>),
     Slice(<<StrV("boom"), StrV("bang")>>)}
PanicsCalls ==
    CallsOf("Panics", {"hRem", "hRem2"},
            {<<IntV(10), IntV(3)>>, <<IntV(1), IntV(0)>>, <<Nil, Nil>>, <<Int8V(7), Nil>>},
            PanicsExpected)
    \cup CallsOf("Panics", {"hNoop", "hPanicNil"}, {<<>>}, PanicsExpected)
    \cup CallsOf("Panics", {"hBool"}, {<<BoolV(TRUE)>>, <<Nil>>}, {NilSlice})

NextPanics ==
    \/ \E c \in PanicsCalls : Panics(c.h, c.args, c.hargs) /\ UNCHANGED prev
    \/ OpenSubTest
    \/ CastArgs
    \/ PanicsCall

SpecPanics == Init /\ [][NextPanics]_vars

\* the callee of the call in progress panics with a value that is not nil
CalleePanicsNonNil == Body(F.fn, argsIn).panics /\ F.fn # "PanicNil"

\* C11: a Panics() call without an expected value never takes the process down; once
\* it has finished, its sub-test has passed exactly if the callee panicked with a
\* non-nil value, and against a callee that returned normally it has failed with the
\* "did not panic" diagnostic.
C11_PanicsNoExpected ==
    (cur.via = "Panics" /\ Len(cur.hargs.e) = 0) =>
        /\ pc # "crashed"
        /\ outcome # "panic"
        /\ pc = "end" =>
              /\ subtest # NoSubtest
              /\ invoked = 1
              /\ (outcome = "pass") <=> CalleePanicsNonNil
              /\ outcome \in {"pass", "fail"}
              /\ ~Body(F.fn, argsIn).panics =>
                    outcome = "fail" /\ "did not panic" \in diags

\* C11 witness: Remainder(1, 0).Panics() passed after Remainder(10, 3).Panics() failed
\* and PanicNil().Panics() failed too.
C11_Witness ==
    /\ pc = "end"
    /\ cur.via = "Panics"
    /\ cur.h = "hRem"
    /\ cur.hargs = NilSlice
    /\ argsIn = <<IntV(1), IntV(0)>>
    /\ outcome = "pass"
    /\ got["hRem"] = <<1, 2>>
    /\ got["hPanicNil"] = <<1>>

(***************************************************************************)
(* The environment helper (env.go).  The process environment maps each     *)
(* name of EnvNames to [exists, value]; a name that is empty or holds "="  *)
(* is never in it, because os.Setenv rejects it.                           *)
(***************************************************************************)
\* SetEnv and SetEnvs calls, and calls of restore closures, in one run
MaxSets == 2
MaxResets == 3

EnvNames == {"FOO", "BAR"}
EnvValues == {"baz", ""}
Absent == [exists |-> FALSE, value |-> ""]
Present(v) == [exists |-> TRUE, value |-> v]

\* os.LookupEnv(name)
LookupEnv(e, name) == IF name \in DOMAIN e THEN e[name] ELSE Absent

\* os.Setenv(name, value): EINVAL for an empty name or one holding "="
Setenv(e, name, value) ==
    IF name \in DOMAIN e
    THEN [err |-> FALSE, env |-> [e EXCEPT ![name] = Present(value)]]
    ELSE [err |-> TRUE, env |-> e]

\* os.Unsetenv(name)
Unsetenv(e, name) ==
    IF name \in DOMAIN e
    THEN [err |-> FALSE, env |-> [e EXCEPT ![name] = Absent]]
    ELSE [err |-> FALSE, env |-> e]

\* mutant of original: the prior state is not captured
original_Forgotten(e, name) == Absent

\* env.go:17, 45-46  originalValue, exists := os.LookupEnv(name)
original(e, name) == LookupEnv(e, name)

\* mutant of restore: the captured value is always set, present or not
restore_AlwaysSetenv(e, name, orig) == Setenv(e, name, orig.value)

\* env.go:21-25, 52-56  what a restore closure does for one captured name
restore(e, name, orig) ==
    IF orig.exists THEN Setenv(e, name, orig.value) ELSE Unsetenv(e, name)

\* env.go:44-48  the loop of SetEnvs over the map env
setAll(e, m) ==
    LET RECURSIVE go(_, _)
        go(x, S) ==
            IF S = {} THEN x
            ELSE LET name == CHOOSE y \in S : TRUE IN
                 go(Setenv(x, name, m[name]).env, S \ {name})
    IN go(e, DOMAIN m)

\* env.go:20-26, 50-58  the restore closure c run on environment e
resetEnv(e, c) ==
    LET RECURSIVE go(_, _)
        go(x, S) ==
            IF S = {} THEN x
            ELSE LET name == CHOOSE y \in S : TRUE IN
                 go(restore(x, name, c.originals[name]).env, S \ {name})
    IN go(e, DOMAIN c.originals)

SetsSoFar == Len(resetEnvs)
ResetsSoFar == Len(envLog) - Len(resetEnvs)

\* env.go:16-27
SetEnv(name, value) ==
    /\ SetsSoFar < MaxSets
    /\ environ' = Setenv(environ, name, value).env
    /\ resetEnvs' = Append(resetEnvs,
                           [kind |-> "SetEnv",
                            originals |-> (name :> original(environ, name))])
    /\ envLog' = Append(envLog, [op |-> "set", kind |-> "SetEnv", i |-> SetsSoFar + 1,
                                 names |-> {name}, found |-> environ,
                                 failed |-> Setenv(environ, name, value).err])
    /\ UNCHANGED <<tfVars, httpVars, goVars>>

\* env.go:37-59
SetEnvs(env) ==
    /\ SetsSoFar < MaxSets
    /\ environ' = setAll(environ, env)
    /\ resetEnvs' = Append(resetEnvs,
                           [kind |-> "SetEnvs",
                            originals |-> [name \in DOMAIN env |-> original(environ, name)]])
    /\ envLog' = Append(envLog, [op |-> "set", kind |-> "SetEnvs", i |-> SetsSoFar + 1,
                                 names |-> DOMAIN env, found |-> environ,
                                 failed |-> \E name \in DOMAIN env :
                                               Setenv(environ, name, env[name]).err])
    /\ UNCHANGED <<tfVars, httpVars, goVars>>

\* the test calls the i-th restore closure it holds
CallResetEnv(i) ==
    /\ i \in 1..Len(resetEnvs)
    /\ ResetsSoFar < MaxResets
    /\ environ' = resetEnv(environ, resetEnvs[i])
    /\ envLog' = Append(envLog, [op |-> "reset", kind |-> resetEnvs[i].kind, i |-> i,
                                 names |-> DOMAIN resetEnvs[i].originals,
                                 found |-> environ,
                                 failed |-> \E name \in DOMAIN resetEnvs[i].originals :
                                               restore(environ, name,
                                                       resetEnvs[i].originals[name]).err])
    /\ UNCHANGED resetEnvs
    /\ UNCHANGED <<tfVars, httpVars, goVars>>

\* the maps given to SetEnvs
EnvMaps ==
    {("FOO" :> "baz") @@ ("BAR" :> "baz"), ("FOO" :> ""), ("BAR" :> "baz") @@ ("" :> "baz"),
     [n \in {} |-> ""]}

\* the environment the test finds
InitEnv ==
    /\ TfInit /\ HTTPIdle /\ GoIdle
    /\ environ \in [EnvNames -> {Absent, Present("bar"), Present("")}]
    /\ resetEnvs = <<>>
    /\ envLog = <<>>

NextEnv ==
    \/ \E name \in EnvNames \cup {""}, value \in EnvValues : SetEnv(name, value)
    \/ \E env \in EnvMaps : SetEnvs(env)
    \/ \E i \in 1..MaxSets : CallResetEnv(i)

SpecEnv == InitEnv /\ [][NextEnv]_vars

\* the environment right after the k-th logged call
After(k) == IF k < Len(envLog) THEN envLog[k + 1].found ELSE environ

\* the k-th logged call is a restore that directly follows the set that made its closure
RestoresAfterSet(k) ==
    /\ k \in 2..Len(envLog)
    /\ envLog[k].op = "reset"
    /\ envLog[k - 1].op = "set"
    /\ envLog[k - 1].i = envLog[k].i

\* the k-th logged call repeats the restore before it
RestoresAgain(k) ==
    /\ k \in 2..Len(envLog)
    /\ envLog[k].op = "reset"
    /\ envLog[k - 1].op = "reset"
    /\ envLog[k - 1].i = envLog[k].i

\* C12: a restore called right after its SetEnv or SetEnvs leaves the whole environment
\* (the affected names, present or absent before, and every other name) as the set
\* found it, and the same restore called again right away changes nothing.
C12_RestoreUndoesSet ==
    \A k \in 1..Len(envLog) :
        /\ RestoresAfterSet(k) => After(k) = envLog[k - 1].found
        /\ RestoresAgain(k) => After(k) = envLog[k].found

\* C12 witness: SetEnvs{FOO: baz, BAR: baz} on FOO=bar and BAR absent, then its restore
\* twice.
C12_Witness ==
    /\ Len(envLog) = 3
    /\ envLog[1].kind = "SetEnvs"
    /\ envLog[1].names = {"FOO", "BAR"}
    /\ envLog[1].found = ("FOO" :> Present("bar")) @@ ("BAR" :> Absent)
    /\ envLog[2].found = ("FOO" :> Present("baz")) @@ ("BAR" :> Present("baz"))
    /\ RestoresAfterSet(2)
    /\ RestoresAgain(3)
    /\ environ = envLog[1].found

\* the log is n SetEnv calls followed by the restores of the last j of them, newest first
ReverseRestored(n, j) ==
    /\ Len(envLog) = n + j
    /\ \A k \in 1..n : envLog[k].op = "set" /\ envLog[k].kind = "SetEnv"
    /\ \A k \in 1..j : envLog[n + k].op = "reset" /\ envLog[n + k].i = n + 1 - k

\* the logged SetEnv call that made closure i
SetOf(i) == CHOOSE k \in 1..Len(envLog) : envLog[k].op = "set" /\ envLog[k].i = i

\* C16: after a sequence of SetEnv calls, restoring the newest j of them newest-first
\* leaves the environment as the oldest of those j calls found it, so restoring all of
\* them gives back the environment before the first SetEnv; and every restore of a
\* SetEnv closure leaves its variable as its own SetEnv call found it and touches no
\* other variable.
C16_ReverseRestore ==
    /\ \A n \in 1..MaxSets : \A j \in 1..n :
          ReverseRestored(n, j) => environ = envLog[n + 1 - j].found
    /\ \A k \in 1..Len(envLog) :
          (envLog[k].op = "reset" /\ envLog[k].kind = "SetEnv") =>
              \A name \in EnvNames :
                  After(k)[name] = IF name \in envLog[k].names
                                   THEN envLog[SetOf(envLog[k].i)].found[name]
                                   ELSE envLog[k].found[name]

\* C16 witness: FOO=bar is overridden twice, both restores are called newest-first, and
\* the newer closure wrote back "baz", the value its own SetEnv had found.
C16_Witness ==
    /\ ReverseRestored(2, 2)
    /\ envLog[1].names = {"FOO"}
    /\ envLog[2].names = {"FOO"}
    /\ envLog[1].found["FOO"] = Present("bar")
    /\ envLog[2].found["FOO"] = Present("baz")
    /\ envLog[3].found["FOO"] = Present("")
    /\ envLog[4].found["FOO"] = Present("baz")
    /\ environ["FOO"] = Present("bar")

(***************************************************************************)
(* The HTTP harness (http.go): ServeHTTP runs the steps of an HTTPTester,  *)
(* testSingle runs one step.                                               *)
(***************************************************************************)
\* steps of a MultiHTTPTest
MaxSteps == 2

\* http.StatusOK, http.StatusInternalServerError
StatusOK == 200
StatusInternalServerError == 500

\* http.go:35-95  the fields of an HTTPTest that testSingle looks at.  valid: whether
\* httptest.NewRequest accepts Method and Path; a hook is "nil" (not defined), "ok" or
\* "panic"; Check is "nil", "true", "false" or "panic"; Status 0 is not checked;
\* ResponseHeaders holds no or one header; ResponseBody is "nil", "ok" or a reader
\* that fails ("errReader")
HTTPTests ==
    [valid : BOOLEAN,
     Before : {"nil", "ok", "panic"},
     Finally : {"nil", "ok"},
     Check : {"nil", "true", "false", "panic"},
     Status : {0, StatusOK},
     ResponseHeaders : {0, 1},
     ResponseBody : {"nil", "ok", "errReader"}]

\* what handlerFunc does with the request: it panics, or writes a response
Responses ==
    [panics : {FALSE}, Code : {StatusOK, StatusInternalServerError},
     Header : {"match", "other"}, Body : {"ok", "other"}]
    \cup {[panics |-> TRUE, Code |-> 0, Header |-> "other", Body |-> ""]}

\* http.go:24-33, 114-128  an HTTPTest is its own single step; a MultiHTTPTest has a
\* Before hook and n Steps
HTTPTesters ==
    {[multi |-> FALSE, before |-> "nil", n |-> 1]}
    \cup [multi : {TRUE}, before : {"nil", "ok", "panic"}, n : 0..MaxSteps]

\* the result of the current step so far
Result == results[stepIdx]
SetResult(r) == results' = [results EXCEPT ![stepIdx] = r]

\* http.go:183-184  the closure is called with tests and opens the outer sub-test
ServeHTTP(ts) ==
    /\ hpc = "idle"
    /\ tests' = ts
    /\ hpc' = "run"
    /\ results' = [k \in 1..ts.n |-> "none"]
    /\ UNCHANGED <<test, stepIdx, recorder, events, handled>>
    /\ UNCHANGED <<tfVars, envVars, goVars>>

\* http.go:185-189, 196  MultiHTTPTest.Before runs; with no step at all,
\* tests.Tests()[0] is out of range
MultiBefore ==
    /\ hpc = "run"
    /\ hpc' = IF tests.before = "panic" \/ tests.n = 0 THEN "crashed" ELSE "loop"
    /\ UNCHANGED <<tests, test, stepIdx, recorder, events, results, handled>>
    /\ UNCHANGED <<tfVars, envVars, goVars>>

\* http.go:190-192, 134-136  the next step starts: recorder and request are built, and
\* httptest.NewRequest panics on a malformed request
StartStep(ht) ==
    /\ hpc = "loop"
    /\ stepIdx < tests.n
    /\ stepIdx' = stepIdx + 1
    /\ test' = ht
    /\ recorder' = NoRecorder
    /\ events' = <<>>
    /\ results' = [results EXCEPT ![stepIdx + 1] = IF ht.valid THEN "pass" ELSE "panic"]
    /\ hpc' = IF ht.valid THEN "before" ELSE "crashed"
    /\ UNCHANGED <<tests, handled>>
    /\ UNCHANGED <<tfVars, envVars, goVars>>

\* http.go:144-150
Before ==
    /\ hpc = "before"
    /\ events' = IF test.Before = "nil" THEN events ELSE Append(events, "Before")
    /\ IF test.Before = "panic"
       THEN SetResult("panic") /\ hpc' = "deferred"
       ELSE UNCHANGED results /\ hpc' = "handler"
    /\ UNCHANGED <<tests, test, stepIdx, recorder, handled>>
    /\ UNCHANGED <<tfVars, envVars, goVars>>

\* http.go:152
CallHandler(resp) ==
    /\ hpc = "handler"
    /\ handled' = Append(handled, stepIdx)
    /\ events' = Append(events, "Handler")
    /\ IF resp.panics
       THEN SetResult("panic") /\ hpc' = "deferred" /\ UNCHANGED recorder
       ELSE /\ recorder' = [written |-> TRUE, Code |-> resp.Code,
                            Header |-> resp.Header, Body |-> resp.Body]
            /\ hpc' = "check"
            /\ UNCHANGED results
    /\ UNCHANGED <<tests, test, stepIdx>>
    /\ UNCHANGED <<tfVars, envVars, goVars>>

\* http.go:156-158
Check ==
    /\ hpc = "check"
    /\ events' = IF test.Check = "nil" THEN events ELSE Append(events, "Check")
    /\ CASE test.Check = "false" -> SetResult("fail") /\ hpc' = "deferred"
         [] test.Check = "panic" -> SetResult("panic") /\ hpc' = "deferred"
         [] OTHER -> UNCHANGED results /\ hpc' = "status"
    /\ UNCHANGED <<tests, test, stepIdx, recorder, handled>>
    /\ UNCHANGED <<tfVars, envVars, goVars>>

\* http.go:160-162
AssertStatus ==
    /\ hpc = "status"
    /\ events' = IF test.Status = 0 THEN events ELSE Append(events, "Status")
    /\ IF test.Status # 0 /\ test.Status # recorder.Code
       THEN SetResult("fail") /\ hpc' = "deferred"
       ELSE UNCHANGED results /\ hpc' = "headers"
    /\ UNCHANGED <<tests, test, stepIdx, recorder, handled>>
    /\ UNCHANGED <<tfVars, envVars, goVars>>

\* http.go:164-168
AssertHeaders ==
    /\ hpc = "headers"
    /\ events' = IF test.ResponseHeaders = 0 THEN events ELSE Append(events, "Header")
    /\ IF test.ResponseHeaders # 0 /\ recorder.Header # "match"
       THEN SetResult("fail") /\ hpc' = "deferred"
       ELSE UNCHANGED results /\ hpc' = "body"
    /\ UNCHANGED <<tests, test, stepIdx, recorder, handled>>
    /\ UNCHANGED <<tfVars, envVars, goVars>>

\* http.go:170-179
AssertBody ==
    /\ hpc = "body"
    /\ events' = IF test.ResponseBody = "nil" THEN events ELSE Append(events, "Body")
    /\ IF \/ test.ResponseBody = "errReader"
          \/ test.ResponseBody = "ok" /\ recorder.Body # "ok"
       THEN SetResult("fail")
       ELSE UNCHANGED results
    /\ hpc' = "deferred"
    /\ UNCHANGED <<tests, test, stepIdx, recorder, handled>>
    /\ UNCHANGED <<tfVars, envVars, goVars>>

\* mutant of RunDeferred: Finally is called on the return paths only, not deferred
RunDeferred_NotOnPanic ==
    /\ hpc = "deferred"
    /\ events' = IF test.Finally = "nil" \/ Result = "panic"
                 THEN events ELSE Append(events, "Finally")
    /\ hpc' = IF Result = "panic" THEN "crashed"
              ELSE IF stepIdx < tests.n THEN "loop" ELSE "done"
    /\ UNCHANGED <<tests, test, stepIdx, recorder, results, handled>>
    /\ UNCHANGED <<tfVars, envVars, goVars>>

\* http.go:138-142  testSingle is left, by return or by panic: the deferred function
\* runs; a panic then goes on and ends the test binary, otherwise the loop of
\* ServeHTTP (http.go:190-194) goes on whatever the step's result
RunDeferred ==
    /\ hpc = "deferred"
    /\ events' = IF test.Finally = "nil" THEN events ELSE Append(events, "Finally")
    /\ hpc' = IF Result = "panic" THEN "crashed"
              ELSE IF stepIdx < tests.n THEN "loop" ELSE "done"
    /\ UNCHANGED <<tests, test, stepIdx, recorder, results, handled>>
    /\ UNCHANGED <<tfVars, envVars, goVars>>

InitHTTP == TfInit /\ EnvIdle /\ GoIdle /\ HTTPIdle

NextHTTP ==
    \/ \E ts \in HTTPTesters : ServeHTTP(ts)
    \/ MultiBefore
    \/ \E ht \in HTTPTests : StartStep(ht)
    \/ Before
    \/ \E resp \in Responses : CallHandler(resp)
    \/ Check
    \/ AssertStatus
    \/ AssertHeaders
    \/ AssertBody
    \/ RunDeferred

SpecHTTP == InitHTTP /\ [][NextHTTP]_vars

\* C13: in a MultiHTTPTest the requests reach the handler in declared order, and a
\* step's request reaches it only if every step before it passed.
C13_StepsStopAfterFailure ==
    /\ Increasing(handled)
    /\ \A i \in 1..Len(handled) :
          \A k \in 1..(handled[i] - 1) : results[k] = "pass"

\* testSingle has been left for the current step (or never got to run it)
StepEnded == stepIdx >= 1 /\ hpc \in {"loop", "done", "crashed"}
DefinesFinally == stepIdx >= 1 /\ test.Finally # "nil"
FinallyOnceAndLast ==
    /\ \A i \in 1..Len(events) : events[i] = "Finally" => i = Len(events)
    /\ StepEnded => Len(events) >= 1 /\ events[Len(events)] = "Finally"

Goroutines == 2

\* the wrapper's state apart from the registry
callVars == <<pc, cur, subtest, argsIn, returns, expected, diags, outcome, invoked,
              steps, got, prev>>

GoNotStarted == [pc |-> "idle", h |-> "none", tmp |-> 0, ctr |-> 0, raced |-> FALSE]
GoName(g) == Function(gor[g].h, <<>>).fnName
GoRunning(g) == gor[g].pc \in {"check", "init", "load", "store", "read"}
\* the goroutine is inside a map assignment
GoWriting(g) == gor[g].pc \in {"init", "load", "store"}

\* funcMap[name] = v
mapassign(m, name, v) == (name :> v) @@ m

\* tf.go:130  goroutine g enters runFunc for a call on handle h; raced records that
\* the call runs while another call for the same display name is running
GoCall(g, h) ==
    /\ gor[g].pc = "idle"
    /\ LET name == Function(h, <<>>).fnName
           others == {o \in DOMAIN gor : o # g /\ GoRunning(o) /\ GoName(o) = name}
       IN gor' = [o \in DOMAIN gor |->
                    IF o = g THEN [gor[g] EXCEPT !.pc = "check", !.h = h,
                                                 !.raced = others # {}]
                    ELSE IF o \in others THEN [gor[o] EXCEPT !.raced = TRUE]
                    ELSE gor[o]]
    /\ UNCHANGED <<funcMap, callVars, envVars, httpVars>>

\* tf.go:131  if _, ok := funcMap[f.fnName]; !ok
GoCheck(g) ==
    /\ gor[g].pc = "check"
    /\ gor' = [gor EXCEPT ![g].pc = IF GoName(g) \in DOMAIN funcMap THEN "load" ELSE "init"]
    /\ UNCHANGED <<funcMap, callVars, envVars, httpVars>>

\* tf.go:132  funcMap[f.fnName] = 0
GoInit(g) ==
    /\ gor[g].pc = "init"
    /\ funcMap' = mapassign(funcMap, GoName(g), 0)
    /\ gor' = [gor EXCEPT ![g].pc = "load"]
    /\ UNCHANGED <<callVars, envVars, httpVars>>

\* tf.go:135  funcMap[f.fnName]++ : the element is loaded ...
GoLoad(g) ==
    /\ gor[g].pc = "load"
    /\ gor' = [gor EXCEPT ![g].pc = "store", ![g].tmp = funcMap[GoName(g)]]
    /\ UNCHANGED <<funcMap, callVars, envVars, httpVars>>

\* mutant of GoStore: the loaded value is stored back without the increment
GoStore_NoIncrement(g) ==
    /\ gor[g].pc = "store"
    /\ funcMap' = mapassign(funcMap, GoName(g), gor[g].tmp)
    /\ gor' = [gor EXCEPT ![g].pc = "read"]
    /\ UNCHANGED <<callVars, envVars, httpVars>>

\* tf.go:135  ... and stored back incremented
GoStore(g) ==
    /\ gor[g].pc = "store"
    /\ funcMap' = mapassign(funcMap, GoName(g), gor[g].tmp + 1)
    /\ gor' = [gor EXCEPT ![g].pc = "read"]
    /\ UNCHANGED <<callVars, envVars, httpVars>>

\* tf.go:137  fmt.Sprintf("%s#%d", f.fnName, funcMap[f.fnName])
GoRead(g) ==
    /\ gor[g].pc = "read"
    /\ gor' = [gor EXCEPT ![g].pc = "done", ![g].ctr = funcMap[GoName(g)]]
    /\ UNCHANGED <<funcMap, callVars, envVars, httpVars>>

\* the runtime finds the map being written by one goroutine while another one uses
\* it, and stops the process
MapFault ==
    /\ \E g, o \in DOMAIN gor : g # o /\ GoWriting(g) /\ GoRunning(o)
    /\ gor' = [g \in DOMAIN gor |-> [gor[g] EXCEPT !.pc = "fatal"]]
    /\ UNCHANGED <<funcMap, callVars, envVars, httpVars>>

\* handles of the goroutines: two of them share the display name Remainder
GoHandles == {"hRem", "hRem2", "hNoop"}

InitGo ==
    /\ TfInit /\ EnvIdle /\ HTTPIdle
    /\ gor = [g \in 1..Goroutines |-> GoNotStarted]

NextGo ==
    \/ \E g \in 1..Goroutines, h \in GoHandles : GoCall(g, h)
    \/ \E g \in 1..Goroutines : GoCheck(g)
    \/ \E g \in 1..Goroutines : GoInit(g)
    \/ \E g \in 1..Goroutines : GoLoad(g)
    \/ \E g \in 1..Goroutines : GoStore(g)
    \/ \E g \in 1..Goroutines : GoRead(g)
    \/ MapFault

SpecGo == InitGo /\ [][NextGo]_vars

\* the goroutines whose call for display name n has finished
GoDone(n) == {g \in DOMAIN gor : gor[g].pc = "done" /\ GoName(g) = n}
\* no call for display name n is running
GoQuiet(n) == \A g \in DOMAIN gor : ~(GoRunning(g) /\ GoName(g) = n)
\* the calls for display name n got counters that differ, and the registry counted all
GoUnique(n) ==
    /\ \A g, o \in GoDone(n) : g # o => gor[g].ctr # gor[o].ctr
    /\ GoDone(n) # {} => funcMap[n] = Cardinality(GoDone(n))

\* the calls made for display name n
GoCalls(n) == {g \in DOMAIN gor : gor[g].h # "none" /\ GoName(g) = n}
GoFatal == \E g \in DOMAIN gor : gor[g].pc = "fatal"

\* C15: nothing orders two calls of runFunc for one display name.  Calls that did not
\* overlap got counters from 1 up that differ, and the registry counted each of them;
\* so whenever uniqueness is broken (two finished calls with the same counter, or a
\* registry counter that is not the number of calls), two calls for that name have
\* overlapped.  Overlapping calls can obtain any counter from 0 to the number of calls.
C15_RaceBreaksUniqueness ==
    \A n \in DisplayNames :
        (GoQuiet(n) /\ ~GoFatal) =>
            /\ ~GoUnique(n) =>
                  \E g, o \in GoDone(n) : g # o /\ gor[g].raced /\ gor[o].raced
            /\ \A g \in GoDone(n) :
                  /\ gor[g].ctr \in 0..Cardinality(GoCalls(n))
                  /\ ~gor[g].raced => gor[g].ctr >= 1

\* C15 witness: two overlapping calls for Remainder have finished, both were counted
\* and both obtained Remainder#2.
C15_Witness ==
    /\ GoDone("Remainder") = {1, 2}
    /\ gor[1].raced /\ gor[2].raced
    /\ gor[1].ctr = gor[2].ctr
    /\ funcMap["Remainder"] = 2
    /\ gor[1].h # gor[2].h

\* the other outcome: an increment is lost and both calls obtained Remainder#1
C15_LostIncrement ==
    /\ GoDone("Remainder") = {1, 2}
    /\ funcMap["Remainder"] = 1
    /\ gor[1].ctr = 1 /\ gor[2].ctr = 1

====
